---- MODULE Spec2Model ----
(***************************************************************************)
(* Model of package mcgo: the Mojang authentication flow of MCaccount      *)
(* (authenticate, loadSecurityQuestions, needToAnswer, submitAnswers,      *)
(* MojangAuthenticate) and the timed name claim (ChangeName, ChangeName1). *)
(*                                                                         *)
(* The repository holds two copies of the account code: src/account.go and *)
(* the copy in src/unnamed/part_000.  `build` says which copy is compiled. *)
(* The identity provider is a black box: every response it can give is a   *)
(* nondeterministic input of the step that receives it.                    *)
(***************************************************************************)
EXTENDS Integers, Sequences, FiniteSets, TLC

VARIABLES
    build,      \* which copy of the code runs: "account.go" or "part_000"
    account,    \* the MCaccount the caller owns
    pc,         \* position of the caller inside MojangAuthenticate
    ret,        \* what the last MojangAuthenticate call returned
    ncalls,     \* number of MojangAuthenticate calls started so far
    log,        \* history: one record per step function invoked
    now,        \* the clock, in ticks of 10 seconds
    target,     \* the MCaccount ChangeName is called on
    claim       \* the state of one ChangeName call (see ClaimIdle)

vars == <<build, account, pc, ret, ncalls, log, now, target, claim>>

Builds == {"account.go", "part_000"}

(***************************************************************************)
(* Bounds.                                                                 *)
(***************************************************************************)
MaxCalls == 2       \* MojangAuthenticate calls on the one account
MaxQuestions == 4   \* longest challenge list the provider returns
MaxAnswers == 4     \* longest SecurityAnswers list the caller supplies
MaxTime == 6        \* last tick of the clock

\* time.Second*20, the lead of the first wait, in ticks of 10 seconds.
Lead == 2

(***************************************************************************)
(* Values.                                                                 *)
(***************************************************************************)
Tokens == {"tokA"}

\* The error values of the package; "nil" is Go's nil error.
nil == "nil"

\* The i-th security question of the provider, reduced to its answer id.
SqAnswer(i) == [AnswerID |-> 10 + i, QuestionID |-> 20 + i]

QuestionList(n) == [i \in 1..n |-> SqAnswer(i)]

AnswerList(n) == [i \in 1..n |-> "answer"]

\* MCaccount{Email: ..., Password: ..., SecurityAnswers: answers}
NewAccount(answers) ==
    [Email |-> "email", Password |-> "pass",
     SecurityQuestions |-> <<>>, SecurityAnswers |-> answers,
     Bearer |-> "", UUID |-> "", Username |-> "",
     Authenticated |-> FALSE]

\* The zero value MCaccount{}.
ZeroAccount ==
    [Email |-> "", Password |-> "",
     SecurityQuestions |-> <<>>, SecurityAnswers |-> <<>>,
     Bearer |-> "", UUID |-> "", Username |-> "",
     Authenticated |-> FALSE]

(***************************************************************************)
(* What the provider can answer.  A response is what http.Client.Do gives: *)
(* a transport error, or a status with a body; reading the body can fail   *)
(* and the body can be malformed JSON.                                     *)
(***************************************************************************)
NetErr == [neterr |-> TRUE, status |-> 0, body |-> "none", token |-> "", user |-> "", n |-> 0]

Resp(status, body, token, user, n) ==
    [neterr |-> FALSE, status |-> status, body |-> body, token |-> token, user |-> user, n |-> n]

\* POST authserver.mojang.com/authenticate
AuthResponses ==
    {NetErr}
    \cup {Resp(200, "json", t, "steve", 0) : t \in Tokens \cup {""}}
    \cup {Resp(200, b, "", "", 0) : b \in {"malformed", "readerr"}}
    \cup {Resp(st, "json", "", "", 0) : st \in {403, 500}}

\* GET api.mojang.com/user/security/challenges
ChallengeResponses ==
    {NetErr}
    \cup {Resp(200, "json", "", "", n) : n \in 0..MaxQuestions}
    \cup {Resp(200, b, "", "", 0) : b \in {"malformed", "readerr"}}
    \cup {Resp(st, "json", "", "", 0) : st \in {400}}

\* GET api.mojang.com/user/security/location
LocationResponses ==
    {NetErr} \cup {Resp(st, "json", "", "", 0) : st \in {204, 403, 500}}

\* POST api.mojang.com/user/security/location
SubmitResponses ==
    {NetErr} \cup {Resp(st, "json", "", "", 0) : st \in {204, 403, 500}}

\* GET api.minecraftservices.com/minecraft/profile
ProfileResponses ==
    {NetErr}
    \cup {Resp(200, "json", "", "steve", 0)}
    \cup {Resp(200, b, "", "", 0) : b \in {"malformed", "readerr"}}
    \cup {Resp(st, "json", "", "", 0) : st \in {401, 404}}

\* GET api.minecraftservices.com/minecraft/profile/namechange; n = 1 stands
\* for "nameChangeAllowed": true.
NameChangeResponses ==
    {NetErr}
    \cup {Resp(200, "json", "", "", n) : n \in {0, 1}}
    \cup {Resp(200, b, "", "", 0) : b \in {"malformed", "readerr"}}
    \cup {Resp(st, "json", "", "", 0) : st \in {401}}

\* POST api.minecraftservices.com/minecraft/profile with the name "test";
\* the body of a 400 is its details.status, unreadable or malformed.
GcResponses ==
    {NetErr}
    \cup {Resp(st, "json", "", "", 0) : st \in {200, 401, 500}}
    \cup {Resp(400, b, "", "", 0) :
             b \in {"ALREADY_REGISTERED", "DUPLICATE", "NOT_ALLOWED", "OTHER",
                    "malformed", "readerr"}}

\* The UUID the provider files a user name under.
UUIDOf(user) == IF user = "" THEN "" ELSE "uuid-" \o user

(***************************************************************************)
(* AuthenticatedReq: the request is built only when a bearer is set.       *)
(* http.NewRequest cannot fail on the fixed methods and URLs used here.    *)
(***************************************************************************)
\* AuthenticatedReq building the request whatever the bearer is.
AuthenticatedReqUnchecked(acc) ==
    [req |-> "Bearer " \o acc.Bearer, err |-> nil]

AuthenticatedReq(acc) ==
    IF acc.Bearer = ""
    THEN [req |-> "none", err |-> "account is not authenticated"]
    ELSE [req |-> "Bearer " \o acc.Bearer, err |-> nil]

\* The outcome of one step function: the account after it, the error it
\* returns, whether it sent a request, the status it got, and the boolean
\* needToAnswer returns.
Outcome(acc, err, sent, resp, needed) ==
    [account |-> acc, err |-> err, sent |-> sent,
     status |-> IF sent THEN resp.status ELSE 0, needed |-> needed]

(***************************************************************************)
(* authenticate: the credential exchange.  b is the build.                 *)
(***************************************************************************)
authenticate(acc, resp, b) ==
    IF resp.neterr THEN Outcome(acc, "transport", TRUE, resp, FALSE)
    ELSE IF resp.status < 300 THEN
        IF resp.body = "readerr" THEN Outcome(acc, "read", TRUE, resp, FALSE)
        ELSE IF resp.body = "malformed" /\ b = "part_000"
             THEN Outcome(acc, "json", TRUE, resp, FALSE)
        ELSE \* account.go ignores the error of json.Unmarshal, which leaves
             \* AccountInfo at its zero value on a syntax error
             LET tok  == IF resp.body = "malformed" THEN "" ELSE resp.token
                 user == IF resp.body = "malformed" THEN "" ELSE resp.user
             IN  Outcome([acc EXCEPT !.Bearer = tok, !.Username = user,
                                     !.UUID = UUIDOf(user)],
                         nil, TRUE, resp, FALSE)
    ELSE IF resp.status = 403
         THEN Outcome(acc, "invalid email or password", TRUE, resp, FALSE)
    ELSE Outcome(acc, "reached end of authenticate function", TRUE, resp, FALSE)

(***************************************************************************)
(* loadSecurityQuestions: the challenge listing.                           *)
(***************************************************************************)
loadSecurityQuestions(acc, resp) ==
    IF AuthenticatedReq(acc).err # nil
    THEN Outcome(acc, AuthenticatedReq(acc).err, FALSE, resp, FALSE)
    ELSE IF resp.neterr THEN Outcome(acc, "transport", TRUE, resp, FALSE)
    ELSE IF resp.status >= 400
         THEN Outcome(acc, "got status " \o ToString(resp.status) \o " when requesting security questions", TRUE, resp, FALSE)
    ELSE IF resp.body = "readerr" THEN Outcome(acc, "read", TRUE, resp, FALSE)
    ELSE IF resp.body = "malformed" THEN Outcome(acc, "json", TRUE, resp, FALSE)
    ELSE Outcome([acc EXCEPT !.SecurityQuestions = QuestionList(resp.n)],
                 nil, TRUE, resp, FALSE)

\* needToAnswer taking any status other than 403 for "not required".
needToAnswerLenient(acc, resp) ==
    IF AuthenticatedReq(acc).err # nil
    THEN Outcome(acc, AuthenticatedReq(acc).err, FALSE, resp, FALSE)
    ELSE IF resp.neterr THEN Outcome(acc, "transport", TRUE, resp, TRUE)
    ELSE IF resp.status = 403 THEN Outcome(acc, nil, TRUE, resp, TRUE)
    ELSE Outcome(acc, nil, TRUE, resp, FALSE)

(***************************************************************************)
(* needToAnswer: the requirement probe.                                    *)
(***************************************************************************)
needToAnswer(acc, resp) ==
    IF AuthenticatedReq(acc).err # nil
    THEN Outcome(acc, AuthenticatedReq(acc).err, FALSE, resp, FALSE)
    ELSE IF resp.neterr THEN Outcome(acc, "transport", TRUE, resp, TRUE)
    ELSE IF resp.status = 204 THEN Outcome(acc, nil, TRUE, resp, FALSE)
    ELSE IF resp.status = 403 THEN Outcome(acc, nil, TRUE, resp, TRUE)
    ELSE Outcome(acc, "status of " \o ToString(resp.status) \o " in needToAnswer not expected", TRUE, resp, TRUE)

\* submitAnswers refusing only fewer than 3 answers and fewer than 3 questions.
submitAnswersAtLeastThree(acc, resp) ==
    IF Len(acc.SecurityAnswers) < 3
    THEN Outcome(acc, "not enough security question answers provided", FALSE, resp, FALSE)
    ELSE IF Len(acc.SecurityQuestions) < 3
    THEN Outcome(acc, "security questions not properly loaded", FALSE, resp, FALSE)
    ELSE IF AuthenticatedReq(acc).err # nil
    THEN Outcome(acc, AuthenticatedReq(acc).err, FALSE, resp, FALSE)
    ELSE IF resp.neterr THEN Outcome(acc, "transport", TRUE, resp, FALSE)
    ELSE IF resp.status = 204 THEN Outcome(acc, nil, TRUE, resp, FALSE)
    ELSE IF resp.status = 403
         THEN Outcome(acc, "at least one security question answer was incorrect", TRUE, resp, FALSE)
    ELSE Outcome(acc, "got status " \o ToString(resp.status) \o " on post request for sqs", TRUE, resp, FALSE)

(***************************************************************************)
(* submitAnswers: the answer submission.                                   *)
(***************************************************************************)
submitAnswers(acc, resp) ==
    IF Len(acc.SecurityAnswers) # 3
    THEN Outcome(acc, "not enough security question answers provided", FALSE, resp, FALSE)
    ELSE IF Len(acc.SecurityQuestions) # 3
    THEN Outcome(acc, "security questions not properly loaded", FALSE, resp, FALSE)
    ELSE IF AuthenticatedReq(acc).err # nil
    THEN Outcome(acc, AuthenticatedReq(acc).err, FALSE, resp, FALSE)
    ELSE IF resp.neterr THEN Outcome(acc, "transport", TRUE, resp, FALSE)
    ELSE IF resp.status = 204 THEN Outcome(acc, nil, TRUE, resp, FALSE)
    ELSE IF resp.status = 403
         THEN Outcome(acc, "at least one security question answer was incorrect", TRUE, resp, FALSE)
    ELSE Outcome(acc, "got status " \o ToString(resp.status) \o " on post request for sqs", TRUE, resp, FALSE)

(***************************************************************************)
(* The profile queries.  The boolean of an outcome is nameChangeAllowed    *)
(* for NameChangeInfo and the result for HasGcApplied.                     *)
(***************************************************************************)
\* account.go does not look at the error of reading the body.
LoadAccountInfo(acc, resp, b) ==
    IF AuthenticatedReq(acc).err # nil
    THEN Outcome(acc, AuthenticatedReq(acc).err, FALSE, resp, FALSE)
    ELSE IF resp.neterr THEN Outcome(acc, "transport", TRUE, resp, FALSE)
    ELSE IF resp.status = 404
         THEN Outcome(acc, "account does not own minecraft", TRUE, resp, FALSE)
    ELSE IF resp.body = "readerr" /\ b = "part_000"
         THEN Outcome(acc, "read", TRUE, resp, FALSE)
    ELSE Outcome([acc EXCEPT !.Username = resp.user, !.UUID = UUIDOf(resp.user)],
                 nil, TRUE, resp, FALSE)

NameChangeInfo(acc, resp) ==
    IF AuthenticatedReq(acc).err # nil
    THEN Outcome(acc, AuthenticatedReq(acc).err, FALSE, resp, FALSE)
    ELSE IF resp.neterr THEN Outcome(acc, "transport", TRUE, resp, FALSE)
    ELSE IF resp.body = "readerr" THEN Outcome(acc, "read", TRUE, resp, FALSE)
    ELSE IF resp.status >= 400
         THEN Outcome(acc, "failed to grab name change info", TRUE, resp, FALSE)
    ELSE IF resp.body = "malformed" THEN Outcome(acc, "json", TRUE, resp, FALSE)
    ELSE Outcome(acc, nil, TRUE, resp, resp.n = 1)

\* HasGcApplied, of part_000 only.
HasGcApplied(acc, resp) ==
    IF AuthenticatedReq(acc).err # nil
    THEN Outcome(acc, AuthenticatedReq(acc).err, FALSE, resp, FALSE)
    ELSE IF resp.neterr THEN Outcome(acc, "transport", TRUE, resp, FALSE)
    ELSE IF resp.status = 200
         THEN Outcome(acc, "successfully created profile with name test", TRUE, resp, FALSE)
    ELSE IF resp.status = 401
         THEN Outcome(acc, "received unauthorized response", TRUE, resp, FALSE)
    ELSE IF resp.status = 400 THEN
        IF resp.body = "readerr" THEN Outcome(acc, "read", TRUE, resp, FALSE)
        ELSE IF resp.body = "malformed" THEN Outcome(acc, "json", TRUE, resp, FALSE)
        ELSE Outcome(acc, nil, TRUE, resp, resp.body \in {"DUPLICATE", "NOT_ALLOWED"})
    ELSE Outcome(acc, "got status " \o ToString(resp.status) \o ", expected 200, 401, or 400",
                 TRUE, resp, FALSE)

(***************************************************************************)
(* MojangAuthenticate.  The caller runs it step by step; after each step   *)
(* function returns, MojangAuthenticate either returns or goes on.  Each   *)
(* After... operator is the code between two step calls: it gives the      *)
(* account, the next position and the value returned ("pending": none yet).*)
(***************************************************************************)
Goto(acc, next) == [account |-> acc, pc |-> next, ret |-> "pending"]

Return(acc, err) == [account |-> acc, pc |-> "idle", ret |-> err]

\* MojangAuthenticate going on to the listing whatever authenticate returned.
AfterAuthenticateIgnoringError(out) ==
    Goto(out.account, "loadSecurityQuestions")

AfterAuthenticate(out) ==
    IF out.err # nil THEN Return(out.account, out.err)
    ELSE Goto(out.account, "loadSecurityQuestions")

\* MojangAuthenticate without the shortcut for an empty challenge list.
AfterLoadSecurityQuestionsNoShortcut(out) ==
    IF out.err # nil THEN Return(out.account, out.err)
    ELSE Goto(out.account, "needToAnswer")

AfterLoadSecurityQuestions(out) ==
    IF out.err # nil THEN Return(out.account, out.err)
    ELSE IF Len(out.account.SecurityQuestions) = 0
    THEN Return([out.account EXCEPT !.Authenticated = TRUE], nil)
    ELSE Goto(out.account, "needToAnswer")

\* MojangAuthenticate going by the boolean of the probe alone, its error
\* not looked at.
AfterNeedToAnswerIgnoringError(out) ==
    IF ~out.needed
    THEN Return([out.account EXCEPT !.Authenticated = TRUE], nil)
    ELSE Goto(out.account, "submitAnswers")

AfterNeedToAnswer(out) ==
    IF out.err # nil THEN Return(out.account, out.err)
    ELSE IF ~out.needed
    THEN Return([out.account EXCEPT !.Authenticated = TRUE], nil)
    ELSE Goto(out.account, "submitAnswers")

AfterSubmitAnswers(out) ==
    IF out.err # nil THEN Return(out.account, out.err)
    ELSE Return([out.account EXCEPT !.Authenticated = TRUE], nil)

\* MojangAuthenticate run on its own from start to return: r1..r4 are the
\* provider's answers to the four steps, should the call get to them.
MojangAuthenticate(acc, b, r1, r2, r3, r4) ==
    LET s1 == AfterAuthenticate(authenticate(acc, r1, b))
        s2 == AfterLoadSecurityQuestions(loadSecurityQuestions(s1.account, r2))
        s3 == AfterNeedToAnswer(needToAnswer(s2.account, r3))
        s4 == AfterSubmitAnswers(submitAnswers(s3.account, r4))
    IN  IF s1.pc = "idle" THEN s1
        ELSE IF s2.pc = "idle" THEN s2
        ELSE IF s3.pc = "idle" THEN s3
        ELSE s4

\* One record of the history: step `step` of call `call` ran on an account
\* holding na answers, nq questions and the bearer `bearer` (as they were
\* when the step returned); auth is the Authorization header of the request
\* it sent, if it sent one through AuthenticatedReq.
LogEntry(call, step, out) ==
    [call |-> call, step |-> step, sent |-> out.sent, status |-> out.status,
     err |-> out.err, needed |-> out.needed,
     na |-> Len(out.account.SecurityAnswers),
     nq |-> Len(out.account.SecurityQuestions),
     bearer |-> out.account.Bearer,
     auth |-> IF out.sent /\ step # "authenticate"
              THEN AuthenticatedReq(out.account).req ELSE "none"]

(***************************************************************************)
(* ChangeName and ChangeName1: the timed claim.                            *)
(*                                                                         *)
(* A payload is a sequence of tokens.  CR and LF are one byte each, and so *)
(* are the two tokens that close the JSON body, so that cutting the last   *)
(* two tokens off a payload is cutting its last two bytes off.             *)
(***************************************************************************)
CR == "\\r"
LF == "\\n"

Usernames == {"Steve"}

\* len(username)
NameLen(username) == IF username = "Steve" THEN 5 ELSE 0

\* fmt.Sprintf(`{"profileName": "%s"}`, username), and its len
ProfileData(username) == <<"{\"profileName\": \"" \o username, "\"", "}">>

ProfileDataLen(username) == 17 + NameLen(username) + 2

\* The payload ChangeName and ChangeName1 of part_000 build by hand.
Payload(variant, bearer, username, createProfile) ==
    IF createProfile
    THEN <<"POST /minecraft/profile HTTP/1.1", CR, LF,
           "Host: api.minecraftservices.com", CR, LF,
           "Authorization: Bearer " \o bearer, CR, LF,
           "Content-Type: application/json", CR, LF,
           "Content-Length: " \o ToString(ProfileDataLen(username)), CR, LF,
           CR, LF>> \o ProfileData(username)
    ELSE IF variant = "ChangeName"
    THEN <<"PUT /minecraft/profile/name/" \o username \o " HTTP/1.1", CR, LF,
           "Host: api.minecraftservices.com", CR, LF,
           "Authorization: Bearer " \o bearer, CR, LF,
           CR, LF>>
    ELSE <<"POST /minecraft/profile HTTP/1.1", CR, LF,
           "Host: api.minecraftservices.com", CR, LF,
           "Authorization: Bearer " \o bearer, CR, LF,
           CR, LF>>

\* generatePayload of account.go: the request line, the headers and the
\* optional JSON body with its Content-Length, without the final terminator,
\* which ChangeName writes itself.  Its source is not part of the package
\* files at hand; it is taken never to fail on these fixed methods and URLs.
generatePayload(bearer, username, createProfile) ==
    IF createProfile
    THEN <<"POST /minecraft/profile HTTP/1.1", CR, LF,
           "Host: api.minecraftservices.com", CR, LF,
           "Authorization: Bearer " \o bearer, CR, LF,
           "Accept: application/json", CR, LF,
           "Content-Length: " \o ToString(ProfileDataLen(username)), CR, LF,
           CR, LF>> \o ProfileData(username)
    ELSE <<"PUT /minecraft/profile/name/" \o username \o " HTTP/1.1", CR, LF,
           "Host: api.minecraftservices.com", CR, LF,
           "Authorization: Bearer " \o bearer, CR, LF,
           "Accept: application/json", CR, LF>>

\* What the first and the second conn.Write of a call carry.
FirstWrite(b, variant, bearer, username, createProfile) ==
    IF b = "part_000"
    THEN LET payload == Payload(variant, bearer, username, createProfile)
         IN  SubSeq(payload, 1, Len(payload) - 2)
    ELSE generatePayload(bearer, username, createProfile)

\* The second write carrying a CRLF whatever the payload ends with.
SecondWriteTerminator(b, variant, bearer, username, createProfile) ==
    <<CR, LF>>

SecondWrite(b, variant, bearer, username, createProfile) ==
    IF b = "part_000"
    THEN LET payload == Payload(variant, bearer, username, createProfile)
         IN  SubSeq(payload, Len(payload) - 1, Len(payload))
    ELSE <<CR, LF>>

(***************************************************************************)
(* The status field: bytes 9..11 of the buffer conn.Read filled.  A byte   *)
(* the read did not reach is still the NUL the buffer was made with.       *)
(***************************************************************************)
Digits == {"0", "1", "2", "3", "4", "5", "6", "7", "8", "9"}

DigitVal(c) ==
    CASE c = "0" -> 0 [] c = "1" -> 1 [] c = "2" -> 2 [] c = "3" -> 3
      [] c = "4" -> 4 [] c = "5" -> 5 [] c = "6" -> 6 [] c = "7" -> 7
      [] c = "8" -> 8 [] c = "9" -> 9

StatusFields ==
    {<<h, t, u>> : h \in {"0", "2", "3", "4", "9", "+", "-", "x", "NUL"},
                   t \in {"0", "9", "x"},
                   u \in {"0", "3", "9"}}

RECURSIVE DecimalValue(_)
DecimalValue(ds) ==
    IF ds = <<>> THEN 0
    ELSE 10 * DecimalValue(SubSeq(ds, 1, Len(ds) - 1)) + DigitVal(ds[Len(ds)])

\* strconv.Atoi on a three-byte string: an optional sign, then digits only.
Atoi(s) ==
    LET signed == s[1] \in {"+", "-"}
        ds     == IF signed THEN SubSeq(s, 2, Len(s)) ELSE s
    IN  IF \A i \in 1..Len(ds) : ds[i] \in Digits
        THEN [n |-> IF s[1] = "-" THEN 0 - DecimalValue(ds) ELSE DecimalValue(ds),
              err |-> nil]
        ELSE [n |-> 0, err |-> "strconv.Atoi: invalid syntax"]

\* NameChangeReturn
NameChangeReturn(acc, username, changed, status, sendTime, recvTime) ==
    [Account |-> acc, Username |-> username, ChangedName |-> changed,
     StatusCode |-> status, SendTime |-> sendTime, ReceiveTime |-> recvTime]

NoReturn == NameChangeReturn(ZeroAccount, "", FALSE, 0, 0, 0)

\* status <= 300
ChangedNameUpTo300(status) == status <= 300

\* status < 300
ChangedName(status) == status < 300

\* ChangeName echoing the zero account in the outcome it returns.
ChangeNameResultZeroAccount(b, acc, username, recvd, sendTime, recvTime) ==
    LET parsed == Atoi(recvd)
    IN  IF b = "part_000" /\ parsed.err # nil
        THEN [out |-> NameChangeReturn(ZeroAccount, username, FALSE, 0, sendTime, 0),
              err |-> parsed.err]
        ELSE [out |-> NameChangeReturn(ZeroAccount, username, ChangedName(parsed.n),
                                       parsed.n, sendTime, recvTime),
              err |-> nil]

\* What ChangeName returns once it has read the response: the outcome record
\* and the error.  account.go drops the error of strconv.Atoi.
ChangeNameResult(b, acc, username, recvd, sendTime, recvTime) ==
    LET parsed == Atoi(recvd)
    IN  IF b = "part_000" /\ parsed.err # nil
        THEN [out |-> NameChangeReturn(ZeroAccount, username, FALSE, 0, sendTime, 0),
              err |-> parsed.err]
        ELSE [out |-> NameChangeReturn(acc, username, ChangedName(parsed.n),
                                       parsed.n, sendTime, recvTime),
              err |-> nil]

\* ChangeName making both writes after the final wait.
ProgramWaitThenWrite(b) ==
    IF b = "part_000"
    THEN <<"sleep1", "dial", "sleep2", "write1", "write2", "sendTime", "read", "finish">>
    ELSE <<"sleep1", "dial", "write1", "sendTime", "write2", "read", "finish">>

\* The statements of ChangeName in order; ChangeName1 runs the same ones.
Program(b) ==
    IF b = "part_000"
    THEN <<"sleep1", "dial", "write1", "sleep2", "write2", "sendTime", "read", "finish">>
    ELSE <<"sleep1", "dial", "write1", "sendTime", "write2", "read", "finish">>

\* The statement after statement `at`.
NextStatement(b, at) ==
    LET i == CHOOSE k \in 1..Len(Program(b)) : Program(b)[k] = at
    IN  Program(b)[i + 1]

\* The state of the name claim while no ChangeName call is made.
ClaimIdle ==
    [pc |-> "idle", variant |-> "none", username |-> "", changeTime |-> 0,
     calledAt |-> 0, createProfile |-> FALSE, conn |-> "none", wake |-> 0, events |-> <<>>,
     wire |-> <<>>, recvd |-> <<>>, sendTime |-> 0, out |-> NoReturn,
     err |-> "none"]

\* One event of a ChangeName call.  early: a write made before the clock
\* reached the target instant; d: the sign of the duration a sleep was asked
\* for; suspended: the sleep did suspend the flow.
Event(ev, d, suspended) ==
    [ev |-> ev,
     early |-> ev \in {"write1", "write2"} /\ now < claim.changeTime,
     d |-> d, suspended |-> suspended]

Sgn(d) == IF d < 0 THEN 0 - 1 ELSE IF d > 0 THEN 1 ELSE 0

\* The accounts ChangeName is called on: a fresh one and an authenticated one.
ClaimAccounts ==
    {NewAccount(<<>>),
     [NewAccount(AnswerList(3)) EXCEPT !.Bearer = "tokA", !.Username = "steve",
                                       !.UUID = UUIDOf("steve"),
                                       !.SecurityQuestions = QuestionList(3),
                                       !.Authenticated = TRUE]}

ChangeTimes == 0..(MaxTime - 2)

Variants(b) == IF b = "part_000" THEN {"ChangeName", "ChangeName1"} ELSE {"ChangeName"}

\* Every statement of the call waits for the sleep before it to end.
Running(at) == claim.pc = at /\ now >= claim.wake

AuthIdle == UNCHANGED <<build, account, pc, ret, ncalls, log, target>>

\* The caller calls target.ChangeName(username, changeTime, createProfile).
CallChangeName ==
    /\ claim.pc = "idle"
    /\ \E v \in Variants(build), u \in Usernames, t \in ChangeTimes, cp \in BOOLEAN :
          claim' = [claim EXCEPT !.pc = "sleep1", !.variant = v, !.username = u,
                                 !.changeTime = t, !.calledAt = now,
                                 !.createProfile = cp]
    /\ UNCHANGED now
    /\ AuthIdle

\* Time passes while the call runs.
Tick ==
    /\ claim.pc \notin {"idle", "done", "panic"}
    /\ now < MaxTime
    /\ now' = now + 1
    /\ UNCHANGED claim
    /\ AuthIdle

\* time.Sleep(d) at statement `at`: it suspends the flow only when d > 0.
Sleep(at, d) ==
    claim' = [claim EXCEPT !.pc = NextStatement(build, at),
                           !.wake = IF d > 0 THEN now + d ELSE claim.wake,
                           !.events = Append(@, Event(at, Sgn(d), d > 0))]

\* No sleep is asked for at statement `at`.
Skip(at) == claim' = [claim EXCEPT !.pc = NextStatement(build, at)]

\* The first wait with the lead and the time left taken the wrong way round.
FirstWaitReversed(b, at) ==
    IF b = "part_000" \/ claim.changeTime > now
    THEN Sleep(at, Lead - (claim.changeTime - now))
    ELSE Skip(at)

\* The first wait.  account.go asks for it only when the target is ahead.
FirstWait(b, at) ==
    IF b = "part_000" \/ claim.changeTime > now
    THEN Sleep(at, (claim.changeTime - now) - Lead)
    ELSE Skip(at)

ClaimSleep1 ==
    /\ Running("sleep1")
    /\ FirstWait(build, "sleep1")
    /\ UNCHANGED now
    /\ AuthIdle

\* tls.Dial: on failure the connection it returns is nil.
ClaimDial ==
    /\ Running("dial")
    /\ \E ok \in BOOLEAN :
          claim' = [claim EXCEPT !.pc = NextStatement(build, "dial"),
                                 !.conn = IF ok THEN "open" ELSE "nil",
                                 !.events = Append(@, Event("dial", 0, FALSE))]
    /\ UNCHANGED now
    /\ AuthIdle

\* conn.Write of the first part.  On a nil connection it panics, before the
\* error of the dial is looked at.
ClaimWrite1 ==
    /\ Running("write1")
    /\ IF claim.conn = "nil"
       THEN claim' = [claim EXCEPT !.pc = "panic",
                                   !.events = Append(@, Event("panic", 0, FALSE))]
       ELSE claim' = [claim EXCEPT
                !.pc = NextStatement(build, "write1"),
                !.wire = Append(@, FirstWrite(build, claim.variant, target.Bearer,
                                              claim.username, claim.createProfile)),
                !.events = Append(@, Event("write1", 0, FALSE))]
    /\ UNCHANGED now
    /\ AuthIdle

\* The final wait, until the target instant.
ClaimSleep2 ==
    /\ Running("sleep2")
    /\ Sleep("sleep2", claim.changeTime - now)
    /\ UNCHANGED now
    /\ AuthIdle

ClaimWrite2 ==
    /\ Running("write2")
    /\ claim' = [claim EXCEPT
            !.pc = NextStatement(build, "write2"),
            !.wire = Append(@, SecondWrite(build, claim.variant, target.Bearer,
                                           claim.username, claim.createProfile)),
            !.events = Append(@, Event("write2", 0, FALSE))]
    /\ UNCHANGED now
    /\ AuthIdle

\* sendTime := time.Now()
ClaimSendTime ==
    /\ Running("sendTime")
    /\ claim' = [claim EXCEPT !.pc = NextStatement(build, "sendTime"),
                              !.sendTime = now,
                              !.events = Append(@, Event("sendTime", 0, FALSE))]
    /\ UNCHANGED now
    /\ AuthIdle

\* conn.Read(recvd): whatever the peer sent, or nothing.
ClaimRead ==
    /\ Running("read")
    /\ \E field \in StatusFields :
          claim' = [claim EXCEPT !.pc = NextStatement(build, "read"),
                                 !.recvd = field,
                                 !.events = Append(@, Event("read", 0, FALSE))]
    /\ UNCHANGED now
    /\ AuthIdle

\* The connection after the statements that follow the read: part_000 closes
\* it, account.go leaves it open.
AfterRead(b, conn) == IF b = "part_000" THEN "closed" ELSE conn

\* recvTime := time.Now(), the close, the status extraction and the return.
ClaimFinish ==
    /\ Running("finish")
    /\ LET r == ChangeNameResult(build, target, claim.username, claim.recvd,
                                 claim.sendTime, now)
       IN  claim' = [claim EXCEPT
                !.pc = "done",
                !.conn = AfterRead(build, claim.conn),
                !.out = r.out,
                !.err = r.err,
                !.events = Append(@, Event("recvTime", 0, FALSE))]
    /\ UNCHANGED now
    /\ AuthIdle

InitClaim ==
    /\ build \in Builds
    /\ account = NewAccount(<<>>)
    /\ target \in ClaimAccounts
    /\ pc = "idle"
    /\ ret = "none"
    /\ ncalls = 0
    /\ log = <<>>
    /\ now = 1
    /\ claim = ClaimIdle

NextClaim ==
    \/ CallChangeName
    \/ Tick
    \/ ClaimSleep1
    \/ ClaimDial
    \/ ClaimWrite1
    \/ ClaimSleep2
    \/ ClaimWrite2
    \/ ClaimSendTime
    \/ ClaimRead
    \/ ClaimFinish

SpecClaim == InitClaim /\ [][NextClaim]_vars

(***************************************************************************)
(* submitAnswers called on its own, on an account holding any number of    *)
(* answers and of questions, with and without a bearer.                    *)
(***************************************************************************)
SubmitAccounts ==
    {[NewAccount(AnswerList(na)) EXCEPT !.SecurityQuestions = QuestionList(nq),
                                        !.Bearer = b] :
        na \in 0..MaxAnswers, nq \in 0..MaxQuestions, b \in {"", "tokA"}}

InitSubmit ==
    /\ build \in Builds
    /\ account \in SubmitAccounts
    /\ target = ZeroAccount
    /\ pc = "idle"
    /\ ret = "none"
    /\ ncalls = 0
    /\ log = <<>>
    /\ now = 1
    /\ claim = ClaimIdle

CallSubmitAnswers ==
    /\ pc = "idle"
    /\ log = <<>>
    /\ \E resp \in SubmitResponses :
          LET out == submitAnswers(account, resp)
          IN  /\ account' = out.account
              /\ log' = Append(log, LogEntry(0, "submitAnswers", out))
    /\ UNCHANGED <<build, pc, ret, ncalls, now, target, claim>>

NextSubmit == CallSubmitAnswers

SpecSubmit == InitSubmit /\ [][NextSubmit]_vars

(***************************************************************************)
(* The functions that go through AuthenticatedReq called on their own, in  *)
(* any order, on an account with or without a bearer.                      *)
(***************************************************************************)
\* The function `step` was called and returned `out`.
DirectCall(step, out) ==
    /\ Len(log) < MaxCalls
    /\ account' = out.account
    /\ log' = Append(log, LogEntry(0, step, out))
    /\ UNCHANGED <<build, pc, ret, ncalls, now, target, claim>>

CallLoadSecurityQuestions ==
    /\ pc = "idle"
    /\ \E resp \in ChallengeResponses :
          DirectCall("loadSecurityQuestions", loadSecurityQuestions(account, resp))

CallNeedToAnswer ==
    /\ pc = "idle"
    /\ \E resp \in LocationResponses :
          DirectCall("needToAnswer", needToAnswer(account, resp))

CallLoadAccountInfo ==
    /\ pc = "idle"
    /\ \E resp \in ProfileResponses :
          DirectCall("LoadAccountInfo", LoadAccountInfo(account, resp, build))

CallNameChangeInfo ==
    /\ pc = "idle"
    /\ \E resp \in NameChangeResponses :
          DirectCall("NameChangeInfo", NameChangeInfo(account, resp))

CallHasGcApplied ==
    /\ pc = "idle"
    /\ build = "part_000"
    /\ \E resp \in GcResponses :
          DirectCall("HasGcApplied", HasGcApplied(account, resp))

NextDirect ==
    \/ CallSubmitAnswers
    \/ CallLoadSecurityQuestions
    \/ CallNeedToAnswer
    \/ CallLoadAccountInfo
    \/ CallNameChangeInfo
    \/ CallHasGcApplied

SpecDirect == InitSubmit /\ [][NextDirect]_vars

Init ==
    /\ build \in Builds
    /\ \E n \in {0, 3, MaxAnswers} : account = NewAccount(AnswerList(n))
    /\ target = ZeroAccount
    /\ pc = "idle"
    /\ ret = "none"
    /\ ncalls = 0
    /\ log = <<>>
    /\ now = 1
    /\ claim = ClaimIdle

\* The caller calls account.MojangAuthenticate().
Call ==
    /\ pc = "idle"
    /\ ncalls < MaxCalls
    /\ pc' = "authenticate"
    /\ ret' = "pending"
    /\ ncalls' = ncalls + 1
    /\ UNCHANGED <<build, account, log, now, target, claim>>

\* The step writing its result into the account of the claim as well.
StepOnSharedAccount(step, out, after) ==
    /\ account' = after.account
    /\ target' = after.account
    /\ pc' = after.pc
    /\ ret' = after.ret
    /\ log' = Append(log, LogEntry(ncalls, step, out))
    /\ UNCHANGED <<build, ncalls, now, claim>>

\* The step `step` ran with outcome `out`; MojangAuthenticate goes on as `after`.
Step(step, out, after) ==
    /\ account' = after.account
    /\ pc' = after.pc
    /\ ret' = after.ret
    /\ log' = Append(log, LogEntry(ncalls, step, out))
    /\ UNCHANGED <<build, ncalls, now, target, claim>>

StepAuthenticate ==
    /\ pc = "authenticate"
    /\ \E resp \in AuthResponses :
          LET out == authenticate(account, resp, build)
          IN  Step("authenticate", out, AfterAuthenticate(out))

StepLoadSecurityQuestions ==
    /\ pc = "loadSecurityQuestions"
    /\ \E resp \in ChallengeResponses :
          LET out == loadSecurityQuestions(account, resp)
          IN  Step("loadSecurityQuestions", out, AfterLoadSecurityQuestions(out))

StepNeedToAnswer ==
    /\ pc = "needToAnswer"
    /\ \E resp \in LocationResponses :
          LET out == needToAnswer(account, resp)
          IN  Step("needToAnswer", out, AfterNeedToAnswer(out))

StepSubmitAnswers ==
    /\ pc = "submitAnswers"
    /\ \E resp \in SubmitResponses :
          LET out == submitAnswers(account, resp)
          IN  Step("submitAnswers", out, AfterSubmitAnswers(out))

Next ==
    \/ Call
    \/ StepAuthenticate
    \/ StepLoadSecurityQuestions
    \/ StepNeedToAnswer
    \/ StepSubmitAnswers

Spec == Init /\ [][Next]_vars

(***************************************************************************)
(* Two flows at once: MojangAuthenticate on one account and ChangeName on   *)
(* another, each with its own connection, their statements interleaved in  *)
(* every order.                                                            *)
(***************************************************************************)
\* The account the authentication runs on.
AccountOfBoth == NewAccount(AnswerList(3))

InitBoth ==
    /\ build \in Builds
    /\ account = AccountOfBoth
    /\ target \in {a \in ClaimAccounts : a.Authenticated}
    /\ pc = "idle"
    /\ ret = "none"
    /\ ncalls = 0
    /\ log = <<>>
    /\ now = MaxTime - 3
    /\ claim = ClaimIdle

\* The caller of the authentication makes one call.
CallOnce == Call /\ ncalls = 0

\* The caller of the claim asks for a target instant ahead of it.
CallChangeNameAhead == CallChangeName /\ claim'.changeTime > now

\* The peer answers the claim with a status line ending in "00", or with
\* bytes that are no status.
ClaimReadHundreds == ClaimRead /\ claim'.recvd[2] = "0" /\ claim'.recvd[3] = "0"

NextBoth ==
    \/ CallOnce
    \/ StepAuthenticate
    \/ StepLoadSecurityQuestions
    \/ StepNeedToAnswer
    \/ StepSubmitAnswers
    \/ CallChangeNameAhead
    \/ Tick
    \/ ClaimSleep1
    \/ ClaimDial
    \/ ClaimWrite1
    \/ ClaimSleep2
    \/ ClaimWrite2
    \/ ClaimSendTime
    \/ ClaimReadHundreds
    \/ ClaimFinish

SpecBoth == InitBoth /\ [][NextBoth]_vars

(***************************************************************************)
(* Properties of the authentication flow.                                  *)
(***************************************************************************)
\* The entries of the history that call c made.
CallLog(c) == SelectSeq(log, LAMBDA e : e.call = c)

Steps(c) == {CallLog(c)[i] : i \in 1..Len(CallLog(c))}

\* Step `step` of call c got a status in `statuses` and returned no error.
StepOk(c, step, statuses) ==
    \E e \in Steps(c) : e.step = step /\ e.sent /\ e.status \in statuses /\ e.err = nil

\* Call c went through every step it needed: the credential exchange and the
\* listing succeeded, and no question was loaded, or the probe said "not
\* required", or the provider accepted the answers.
EarnedAuthenticated(c) ==
    /\ StepOk(c, "authenticate", 200..299)
    /\ StepOk(c, "loadSecurityQuestions", 200..399)
    /\ \/ \E e \in Steps(c) : e.step = "loadSecurityQuestions" /\ e.err = nil /\ e.nq = 0
       \/ StepOk(c, "needToAnswer", {204})
       \/ StepOk(c, "submitAnswers", {204})

\* C1: Authenticated is true only if some MojangAuthenticate call had its
\* credential exchange and its challenge listing succeed and then loaded zero
\* questions, or was told "not required" by the probe, or had its answers
\* accepted; in the states before those steps have returned it is false.
C1_AuthenticatedOnlyAfterSteps ==
    account.Authenticated => \E c \in 1..ncalls : EarnedAuthenticated(c)

\* C1 witness: the account is authenticated by a call whose answers the
\* provider accepted.
C1_Witness ==
    /\ account.Authenticated
    /\ pc = "idle"
    /\ StepOk(ncalls, "submitAnswers", {204})

\* A call has returned an error.
ReturnedError == pc = "idle" /\ ret \notin {"none", "pending", nil}

\* The failing step was the last one call c invoked.
FailingStepIsLast(c) ==
    /\ CallLog(c) # <<>>
    /\ CallLog(c)[Len(CallLog(c))].err = ret
    /\ \A i \in 1..(Len(CallLog(c)) - 1) : CallLog(c)[i].err = nil

\* C2: when a MojangAuthenticate call returns an error, no step after the
\* failing one was invoked and Authenticated is false, for every call of a
\* sequence of calls on the account.
C2_ErrorLeavesUnauthenticated ==
    ReturnedError => FailingStepIsLast(ncalls) /\ ~account.Authenticated

\* C8: submitAnswers returns an input-validation error and sends no request
\* unless the account holds exactly 3 answers and exactly 3 questions; it
\* sends a request only when both counts are 3.
C8_SubmitNeedsThreeAndThree ==
    \A i \in 1..Len(log) :
        log[i].step = "submitAnswers" =>
            /\ (log[i].na # 3 \/ log[i].nq # 3) =>
                  /\ ~log[i].sent
                  /\ log[i].err \in {"not enough security question answers provided",
                                     "security questions not properly loaded"}
            /\ log[i].sent => log[i].na = 3 /\ log[i].nq = 3

\* C8 witness: three answers but a question count other than 3 was refused
\* without a request.
C8_Witness ==
    \E i \in 1..Len(log) :
        /\ log[i].step = "submitAnswers"
        /\ log[i].na = 3
        /\ log[i].nq \notin {0, 3}
        /\ ~log[i].sent
        /\ log[i].err = "security questions not properly loaded"

\* Call c exchanged the credentials and was listed zero questions.
ZeroQuestionsListed(c) ==
    /\ StepOk(c, "authenticate", 200..299)
    /\ \E e \in Steps(c) :
          e.step = "loadSecurityQuestions" /\ e.sent /\ e.err = nil /\ e.nq = 0

\* C9: a call whose credential exchange succeeds and whose challenge listing
\* returns zero questions returns success with Authenticated true, and
\* invokes neither needToAnswer nor submitAnswers.
C9_ZeroQuestionsSkipChallenge ==
    \A c \in 1..ncalls :
        ZeroQuestionsListed(c) =>
            /\ \A e \in Steps(c) : e.step \notin {"needToAnswer", "submitAnswers"}
            /\ account.Authenticated
            /\ c = ncalls => pc = "idle" /\ ret = nil

\* C9 witness: the call just returned after a listing of zero questions.
C9_Witness ==
    /\ ncalls >= 1
    /\ ZeroQuestionsListed(ncalls)
    /\ pc = "idle"
    /\ account.Authenticated

\* A credential exchange has succeeded: authenticate returned no error.
ExchangeSucceeded ==
    \E i \in 1..Len(log) : log[i].step = "authenticate" /\ log[i].err = nil

\* C10: Bearer is empty in every state before a credential exchange has
\* succeeded and non-empty in every state after one has (so it is never set
\* back to empty).
C10_BearerSetBySuccess ==
    /\ ~ExchangeSucceeded => account.Bearer = ""
    /\ ExchangeSucceeded => account.Bearer # ""

(***************************************************************************)
(* Properties of the timed claim.                                          *)
(***************************************************************************)
\* The positions of event `ev` in the events of the call.
At(ev) == {i \in 1..Len(claim.events) : claim.events[i].ev = ev}

\* The events strictly between the first and the second write.
BetweenWrites ==
    {k \in 1..Len(claim.events) :
        \E i \in At("write1"), j \in At("write2") : i < k /\ k < j}

Before(a, b) == \A i \in At(a), j \in At(b) : i < j

\* C4: with the target instant ahead, the call waits until 20 s before it,
\* opens the connection, waits until the target and then transmits: the dial
\* comes before the final wait and no write is made before the target.
C4_NothingWrittenBeforeTarget ==
    claim.changeTime > claim.calledAt =>
        /\ Before("sleep1", "dial")
        /\ Before("dial", "sleep2")
        /\ Before("sleep2", "write1")
        /\ At("write1") # {} => At("sleep2") # {}
        /\ \A k \in At("write1") \cup At("write2") : ~claim.events[k].early

\* The target instant was at or before the time of the call.
TargetNotAhead == claim.pc # "idle" /\ claim.changeTime <= claim.calledAt

Sleeps == At("sleep1") \cup At("sleep2")

\* C5 as stated: with the target at or before now no wait suspends the flow
\* and no wait is asked for with a negative duration.
C5_NoNegativeWait ==
    TargetNotAhead =>
        \A k \in Sleeps : ~claim.events[k].suspended /\ claim.events[k].d >= 0

\* C5 amended: with the target at or before now no wait suspends the flow:
\* every wait the call asks for has a duration of zero or less and returns
\* at once, and the call goes straight to the dial.
C5_NoSuspension ==
    TargetNotAhead =>
        /\ claim.wake = 0
        /\ \A k \in Sleeps : ~claim.events[k].suspended /\ claim.events[k].d <= 0
        /\ \A k \in At("dial") : \A i \in 1..(k - 1) : claim.events[i].ev = "sleep1"

\* C5 witness: a call with the target behind it has made both writes, after
\* asking for a wait of negative duration.
C5_Witness ==
    /\ TargetNotAhead
    /\ At("write2") # {}
    /\ \E k \in Sleeps : claim.events[k].d < 0

\* ChangeName has returned an outcome and no error.
Returned == claim.pc = "done" /\ claim.err = nil

\* C6: for every status code in 0..999 the outcome ChangeName returns has
\* ChangedName equal to (StatusCode < 300).
C6_ChangedNameIffBelow300 ==
    (Returned /\ claim.out.StatusCode \in 0..999) =>
        (claim.out.ChangedName <=> claim.out.StatusCode < 300)

\* C6 witness: status 300 was extracted and reported as no success.
C6_Witness ==
    /\ Returned
    /\ claim.recvd = <<"3", "0", "0">>
    /\ claim.out.StatusCode = 300
    /\ ~claim.out.ChangedName

\* C7: in every outcome with both timestamps set, send <= receive; the send
\* timestamp is taken after the completing (second) write and before the
\* read, and the receive timestamp after the read.
C7_SendAfterCompletingWrite ==
    /\ (claim.pc = "done" /\ claim.out.SendTime # 0 /\ claim.out.ReceiveTime # 0)
          => claim.out.SendTime <= claim.out.ReceiveTime
    /\ At("sendTime") # {} => At("write2") # {}
    /\ Before("write2", "sendTime")
    /\ Before("sendTime", "read")
    /\ Before("read", "recvTime")

\* C11: the account holds 0 or 3 security questions in every reachable
\* state, whatever the provider answers to the challenge listing.
C11_ZeroOrThreeQuestions ==
    Len(account.SecurityQuestions) \in {0, 3}

\* The dial of the call failed and the statement after it has run.
DialFailed == claim.conn = "nil" /\ claim.pc # "write1"

\* C12: when the dial fails ChangeName returns that error with an outcome
\* whose send and receive timestamps are zero, and makes no write and no
\* read on the connection.
C12_DialFailureReturnsError ==
    DialFailed =>
        /\ claim.pc = "done"
        /\ claim.err \notin {nil, "none"}
        /\ claim.out.SendTime = 0
        /\ claim.out.ReceiveTime = 0
        /\ At("write1") \cup At("write2") \cup At("read") = {}

\* The three bytes at the status offset are all ASCII digits.
ThreeDigits(s) == \A i \in 1..Len(s) : s[i] \in Digits

\* ChangeName has returned, with or without an error.
Finished == claim.pc = "done"

\* C13: when the bytes at the status offset are not a 3-digit code (nothing
\* received leaves them NUL), ChangeName returns an error with an outcome
\* carrying the send timestamp it captured, a zero receive timestamp, status
\* code 0 and success false.
C13_MalformedPrefixReported ==
    (Finished /\ ~ThreeDigits(claim.recvd)) =>
        /\ claim.err # nil
        /\ claim.out.SendTime = claim.sendTime
        /\ claim.out.ReceiveTime = 0
        /\ claim.out.StatusCode = 0
        /\ ~claim.out.ChangedName

\* C14: for every 3-byte value at the status offset, three ASCII digits give
\* their decimal value as the status code, and any byte that is not an ASCII
\* digit makes the extraction fail with an error instead of a status code.
C14_StatusFromThreeDigits ==
    Finished =>
        IF ThreeDigits(claim.recvd)
        THEN claim.err = nil /\ claim.out.StatusCode = DecimalValue(claim.recvd)
        ELSE claim.err = "strconv.Atoi: invalid syntax"

(***************************************************************************)
(* Properties of the two flows run at once.                                *)
(***************************************************************************)
\* What one MojangAuthenticate call on AccountOfBoth returns when it runs
\* alone, for every choice of provider answers, per build.
AloneReturns ==
    [b \in Builds |->
        {MojangAuthenticate(AccountOfBoth, b, r1, r2, r3, r4) :
            r1 \in AuthResponses, r2 \in ChallengeResponses,
            r3 \in LocationResponses, r4 \in SubmitResponses}]

\* No step changes the state of both flows: a step of the authentication
\* leaves the claim's account and connection alone, and a step of the claim
\* leaves the authentication's account alone.
OneFlowPerStep ==
    /\ <<account, pc, ret, ncalls, log>>' # <<account, pc, ret, ncalls, log>>
          => UNCHANGED <<target, claim>>
    /\ <<target, claim>>' # <<target, claim>>
          => UNCHANGED <<account, pc, ret, ncalls, log>>

\* Each flow ends as it would have ended alone.
EndAsAlone ==
    /\ (pc = "idle" /\ ncalls = 1) =>
          [account |-> account, pc |-> pc, ret |-> ret] \in AloneReturns[build]
    /\ target \in ClaimAccounts
    /\ Finished =>
          \E recvTime \in 0..(MaxTime + 1) :
              [out |-> claim.out, err |-> claim.err] =
                  ChangeNameResult(build, target, claim.username, claim.recvd,
                                   claim.sendTime, recvTime)

AuthenticatedCalls ==
    {"loadSecurityQuestions", "needToAnswer", "submitAnswers",
     "LoadAccountInfo", "NameChangeInfo", "HasGcApplied"}

\* C16: AuthenticatedReq returns an error and no request when the Bearer is
\* empty, and otherwise a request with the header "Bearer <token>"; no
\* challenge listing, probe, answer submission or profile query is sent for
\* an account whose Bearer is empty.
C16_NoRequestWithoutBearer ==
    /\ account.Bearer = "" =>
          /\ AuthenticatedReq(account).err = "account is not authenticated"
          /\ AuthenticatedReq(account).req = "none"
    /\ account.Bearer # "" =>
          /\ AuthenticatedReq(account).err = nil
          /\ AuthenticatedReq(account).req = "Bearer " \o account.Bearer
    /\ \A i \in 1..Len(log) :
          log[i].step \in AuthenticatedCalls =>
              /\ log[i].bearer = "" => ~log[i].sent /\ log[i].err # nil
              /\ log[i].sent =>
                    log[i].bearer # "" /\ log[i].auth = "Bearer " \o log[i].bearer

\* C16 witness: a profile query on an account without a bearer was refused
\* with no request sent.
C16_Witness ==
    \E i \in 1..Len(log) :
        /\ log[i].step = "LoadAccountInfo"
        /\ log[i].bearer = ""
        /\ ~log[i].sent
        /\ log[i].err = "account is not authenticated"

(***************************************************************************)
(* ChangeName and the account it is called on.                             *)
(***************************************************************************)
\* The outcome echoes the requested username and the account.
EchoesCall ==
    Returned => claim.out.Username = claim.username /\ claim.out.Account = target

\* C17: no statement of ChangeName changes a field of the account, on any
\* path, and an outcome returned without error echoes the requested username
\* and an Account equal to the account as it was at the call.
C17_AccountUntouched ==
    /\ [][target' = target]_vars
    /\ []EchoesCall

\* C17 witness: ChangeName returned an outcome echoing the authenticated
\* account it was called on.
C17_Witness ==
    /\ Returned
    /\ target.Authenticated
    /\ target.Bearer = "tokA"
    /\ claim.out.Account = target
    /\ claim.out.Username = "Steve"

(***************************************************************************)
(* The statuses of the credential exchange and of the probe.               *)
(***************************************************************************)
\* The errors of the package that carry the status code `status`.
ErrorsCarrying(status) ==
    {"got status " \o ToString(status) \o " when requesting security questions",
     "status of " \o ToString(status) \o " in needToAnswer not expected",
     "got status " \o ToString(status) \o " on post request for sqs",
     "got status " \o ToString(status) \o ", expected 200, 401, or 400"}

\* The credential exchanges the provider answered with a status.
Exchanges ==
    {i \in 1..Len(log) : log[i].step = "authenticate" /\ log[i].status # 0}

\* C18: authenticate maps a success status to no error with Bearer, UUID and
\* Username populated (or to the error of reading or decoding the body),
\* status 403 to the invalid-credentials error, and
\* every other status to an unexpected-status error that carries the status
\* code; in the error cases no field of the account is changed.
C18_ExchangeStatusMapping ==
    /\ \A i \in Exchanges :
          /\ log[i].status < 300 => log[i].err \in {nil, "read", "json"}
          /\ log[i].status = 403 => log[i].err = "invalid email or password"
          /\ (log[i].status >= 300 /\ log[i].status # 403) =>
                log[i].err \in ErrorsCarrying(log[i].status)
    /\ (Len(log) = 1 /\ log[1].err # nil) =>
          /\ account.Bearer = ""
          /\ account.UUID = ""
          /\ account.Username = ""

\* The probe of the running call returns in this step, answered with
\* `status`.
ProbeReturns(status) ==
    /\ pc = "needToAnswer"
    /\ Len(log') = Len(log) + 1
    /\ log'[Len(log')].step = "needToAnswer"
    /\ log'[Len(log')].nq > 0
    /\ log'[Len(log')].sent
    /\ log'[Len(log')].status = status

\* What MojangAuthenticate does when the probe returns.
ProbeDecides ==
    /\ ProbeReturns(204) =>
          pc' = "idle" /\ ret' = nil /\ account'.Authenticated
    /\ ProbeReturns(403) =>
          pc' = "submitAnswers" /\ account'.Authenticated = account.Authenticated
    /\ \A st \in 100..599 \ {204, 403} :
          ProbeReturns(st) =>
              /\ pc' = "idle"
              /\ ret' \in ErrorsCarrying(st)
              /\ account'.Authenticated = account.Authenticated

\* A call submits its answers only after its probe was answered with 403.
SubmitOnlyAfter403 ==
    \A c \in 1..ncalls :
        (\E e \in Steps(c) : e.step = "submitAnswers") =>
            StepOk(c, "needToAnswer", {403})

\* C19: with questions loaded, a probe answered 204 makes MojangAuthenticate
\* set Authenticated and return without submitting answers; 403 makes it go
\* on to the answer submission; any other status makes it return an
\* unexpected-status error without submitting answers and without setting
\* Authenticated.
C19_ProbeDecidesNextStep ==
    /\ [][ProbeDecides]_vars
    /\ []SubmitOnlyAfter403

\* C19 witness: a first call whose probe was answered 500 returned the error
\* with no answers submitted and the account not authenticated.
C19_Witness ==
    /\ ncalls = 1
    /\ pc = "idle"
    /\ ret = "status of 500 in needToAnswer not expected"
    /\ \E e \in Steps(1) : e.step = "needToAnswer" /\ e.status = 500 /\ e.nq > 0
    /\ \A e \in Steps(1) : e.step # "submitAnswers"
    /\ ~account.Authenticated

(***************************************************************************)
(* The order of the steps of one call.                                     *)
(***************************************************************************)
StepOrder == <<"authenticate", "loadSecurityQuestions", "needToAnswer", "submitAnswers">>

\* The steps call c invoked are the first steps of StepOrder, each once,
\* and every one but the last returned without error.
InOrderUntilError(c) ==
    /\ Len(CallLog(c)) <= Len(StepOrder)
    /\ \A i \in 1..Len(CallLog(c)) : CallLog(c)[i].step = StepOrder[i]
    /\ \A i \in 1..(Len(CallLog(c)) - 1) : CallLog(c)[i].err = nil

\* C20: within one MojangAuthenticate call the steps are invoked only in the
\* order authenticate, loadSecurityQuestions, needToAnswer, submitAnswers,
\* each at most once, and a step only if every earlier step of the call
\* returned without error.
C20_StepsInOrderOnce ==
    \A c \in 1..ncalls : InOrderUntilError(c)

\* C20 witness: a call went through all four steps, the last of which the
\* provider refused, and returned.
C20_Witness ==
    /\ pc = "idle"
    /\ ncalls >= 1
    /\ Len(CallLog(ncalls)) = 4
    /\ CallLog(ncalls)[4].step = "submitAnswers"
    /\ CallLog(ncalls)[4].status = 403
    /\ ret = "at least one security question answer was incorrect"

(***************************************************************************)
(* The two writes of the claim and the payload.                            *)
(***************************************************************************)
\* The payload the running call of part_000 built.
BuiltPayload ==
    Payload(claim.variant, target.Bearer, claim.username, claim.createProfile)

\* The bytes on the wire so far, the writes joined.
OnWire ==
    IF claim.wire = <<>> THEN <<>>
    ELSE IF Len(claim.wire) = 1 THEN claim.wire[1]
    ELSE claim.wire[1] \o claim.wire[2]

\* C21 as stated: for both request shapes the two bytes held back for the
\* second write are the final CRLF, and the first write holds every other
\* byte of the payload.
C21_HeldBackIsTerminator ==
    (build = "part_000" /\ Len(claim.wire) = 2) =>
        /\ claim.wire[2] = <<CR, LF>>
        /\ OnWire = BuiltPayload

\* C21 amended: in ChangeName and ChangeName1 of part_000 the two bytes held
\* back are the last two bytes of the payload, whatever they are: the final
\* CRLF for a request without a body, and the last two bytes of the JSON
\* body when a profile is created.  The first write holds every other
\* byte, so the payload is whole on the wire only after the second write.
C21_LastTwoBytesHeldBack ==
    build = "part_000" =>
        /\ Len(claim.wire) >= 1 =>
              /\ claim.wire[1] = SubSeq(BuiltPayload, 1, Len(BuiltPayload) - 2)
              /\ claim.wire[1] # BuiltPayload
        /\ Len(claim.wire) = 1 => OnWire # BuiltPayload
        /\ Len(claim.wire) = 2 =>
              /\ Len(claim.wire[2]) = 2
              /\ OnWire = BuiltPayload
              /\ claim.createProfile => claim.wire[2] = <<"\"", "}">>
              /\ ~claim.createProfile => claim.wire[2] = <<CR, LF>>

\* C21 witness: ChangeName1 creating a profile has made both writes, the
\* second one carrying the end of the JSON body.
C21_Witness ==
    /\ build = "part_000"
    /\ claim.variant = "ChangeName1"
    /\ claim.createProfile
    /\ Len(claim.wire) = 2
    /\ claim.wire[2] = <<"\"", "}">>

(***************************************************************************)
(* The connection of the claim.                                            *)
(***************************************************************************)
\* C22: every ChangeName call that opened a connection has closed it by the
\* time it returns, with or without an error; no connection is left open
\* after the call.
C22_ConnectionClosedOnReturn ==
    Finished => claim.conn = "closed"

(***************************************************************************)
(* Authenticated and the bearer.                                           *)
(***************************************************************************)
\* C23: in every reachable state, across any sequence of MojangAuthenticate
\* calls on the account and whatever the provider answers, Authenticated
\* implies a non-empty Bearer.
C23_AuthenticatedHasBearer ==
    account.Authenticated => account.Bearer # ""
====
